---- MODULE Spec2Model ----
(***************************************************************************)
(* Build-task execution of nuitkaty: the Process Runner (NuitkaRunner, a   *)
(* QThread), the child process it spawns, the Log Tailer thread as the     *)
(* Coordinator sees it, the Coordinator (BasePage) that starts and cancels *)
(* builds from the UI thread, and the main window's close handler.         *)
(*                                                                         *)
(* Threads: one UI thread (handlers run to completion, one at a time; the  *)
(* multi-step ones carry a position in ui.pc), one worker thread per       *)
(* NuitkaRunner (position runner[r].pc), and the environment (the child    *)
(* process, the clock, the user).  Steps of different threads interleave   *)
(* freely.  Every step of run() is a function on the runner's record       *)
(* (run_begin, open_log, ...); the worker of the page's current runner     *)
(* takes them one at a time.  A runner the page has replaced is touched by *)
(* no handler any more (stop() and the polls go to BasePage.runner only):  *)
(* of it the model keeps its thread and the signal that the rest of its    *)
(* run() can still emit (detach, DetachedRun).                             *)
(***************************************************************************)
EXTENDS Integers, Sequences, FiniteSets, TLC

\* Bounds of the model.
MaxBuilds == 2          \* build attempts started by the user
MaxOut == 1             \* output lines one child prints
MaxFile == 5            \* characters in the log file
MaxKeys == 2            \* keys of the nuitka section when a command is compiled

Builds == 1..MaxBuilds

VARIABLES
    cur,        \* BasePage.runner / BasePage.log_reader_thread: index of the
                \* current pair, 0 = None
    runner,     \* runner[r]: the fields of NuitkaRunner r, of its BuildTask
                \* and of its child process, with the history of r
    tailer,     \* tailer[r]: LogReaderThread r as a thread
    connected,  \* connected[r]: build_finished/build_failed of r are connected
    uiQueue,    \* signal deliveries posted to the UI thread, not yet handled
    ui,         \* UI thread: handler position, and of BasePage the buttons
                \* and the cancel timer
    hist,       \* history of the UI thread: the builds with a cancel request,
                \* and whether _cleanup_threads has returned
    logfile,    \* the log file at LogReaderThread.log_file_path
    reader,     \* the fields of one LogReaderThread, with its history
    config      \* the Config singleton: document, runtime values, config.yml

\* The state of the log reading and of the configuration, which the build
\* and cancel handlers leave alone.
other == <<logfile, reader, config>>

vars == <<cur, runner, tailer, connected, uiQueue, ui, hist, logfile, reader, config>>

-----------------------------------------------------------------------------
\* TaskStatus (build_task.py)
PENDING == "pending"
RUNNING == "running"
COMPLETED == "completed"
FAILED == "failed"

\* A NuitkaRunner after __init__ with its BuildTask ("none" is Python's None,
\* exit codes are written "0" and "1"; end_time counts the assignments to it,
\* 0 = None).  child/code are the
\* spawned process tree: none, running, orphans (the main process is gone,
\* descendants still hold the pipe), dead.  emitted, taskWriters, logWriters,
\* stopActed, killed (stop() ended a running child) and spawnFailed are
\* history; pending is used by detach only.  progress is BuildTask.progress,
\* line the output line _handle_output was last called with and was the
\* progress before that call (used where the text of the output matters).
NoRunner ==
    [pc |-> "none", is_running |-> FALSE, process |-> FALSE, log_file |-> FALSE,
     status |-> PENDING, end_time |-> 0, exit_code |-> "none", logs |-> 0,
     file |-> <<>>, child |-> "none", code |-> "none",
     emitted |-> <<>>, taskWriters |-> {}, logWriters |-> {},
     stopActed |-> FALSE, killed |-> FALSE, spawnFailed |-> FALSE,
     pending |-> {}, progress |-> 0, line |-> <<>>, was |-> 0]

\* The log file before it is created.  gen counts the files that have been
\* at the path (0, 1, 2 = a recreated one); unread: no read of the tailer has
\* been made on the present file.
NoLogFile == [exists |-> FALSE, data |-> <<>>, gen |-> 0, unread |-> FALSE]

\* A LogReaderThread after __init__.  batch, emits, read_from, first_read are
\* the history of its latest poll: the list it emitted (<<>>: none), the
\* number of logs_received events, the offset it sought to (-1: no read),
\* and whether that read was the first one on the file.  before and prev are
\* the file as it was at the poll before the latest one and at the latest
\* one; polls counts the polls up to 2; delivered is every line emitted so
\* far, in the order of emission (kept where the file only grows).
\* is_running is _is_running and interrupt the interruption request of the
\* QThread; stop is the position of a call of stop() ("none", "wait",
\* "returned") and terminate whether it called terminate().  History of the
\* first stop(): stopped_at (where the thread was), stop_size (the size of
\* the file then), reads_after and sleeps_after (the reads and the 100 ms
\* sleeps the thread has made since, counted up to 2).
NoReader ==
    [pc |-> "init", last_position |-> 0, log_file_exists |-> FALSE,
     batch |-> <<>>, emits |-> 0, read_from |-> -1, first_read |-> FALSE,
     before |-> <<>>, prev |-> <<>>, polls |-> 0, delivered |-> <<>>,
     is_running |-> FALSE, interrupt |-> FALSE, stop |-> "none",
     terminate |-> FALSE, stopped_at |-> "none", stop_size |-> -1,
     reads_after |-> 0, sleeps_after |-> 0]

\* No call of another thread has read the configuration.
NoRead == [by |-> "none", doc |-> <<>>, cmd |-> <<>>, mid |-> FALSE]

\* A Config object entering __init__: nothing loaded, the four runtime values
\* empty.  doc is the nuitka section of _config and file that of config.yml,
\* both as the ordered list of their entries.  History: last (the latest
\* method called), kwargs and before (the arguments of the latest update()
\* or set() and the document before it), temped (the values passed to
\* temp()), parts and cmd (the list joined by the latest to_command() and
\* its result), cmd_again (the result of the to_command() before it, when
\* nothing else was called in between; calls counts them up to 2).  Where
\* update() is taken step by step: pc is the position of the update() in
\* progress ("idle": none), lock the holder of _lock, and seen what the latest
\* call made by another thread has read: the method, the document, the
\* command, and whether an update() was in progress.
NoConfig ==
    [doc |-> <<>>, file |-> <<>>, entry_file |-> <<>>, output_dir |-> <<>>,
     output_filename |-> <<>>, icon_path |-> <<>>,
     last |-> "none", kwargs |-> <<>>, before |-> <<>>, temped |-> {},
     parts |-> <<>>, cmd |-> <<>>, cmd_again |-> <<>>, calls |-> 0,
     pc |-> "idle", lock |-> "free", seen |-> NoRead]

Init ==
    /\ cur = 0
    /\ runner = [r \in Builds |-> NoRunner]
    /\ tailer = [r \in Builds |-> [alive |-> FALSE, is_running |-> FALSE]]
    /\ connected = [r \in Builds |-> FALSE]
    /\ uiQueue = <<>>
    /\ ui = [pc |-> "idle", build_visible |-> TRUE, build_enabled |-> FALSE,
             cancel_visible |-> FALSE, timer |-> FALSE, start_set |-> FALSE,
             expired |-> FALSE, after_stop |-> "idle"]
    /\ hist = [cancelReq |-> [r \in Builds |-> FALSE],
               cancelAlive |-> [r \in Builds |-> FALSE],
               cleaned |-> FALSE]
    /\ logfile = NoLogFile
    /\ reader = NoReader
    /\ config = NoConfig

-----------------------------------------------------------------------------
\* Helpers

\* NuitkaRunner.is_running(): "self._is_running and self.process is not None"
is_running_flag_only(r) == runner[r].is_running
is_running(r) == runner[r].is_running /\ runner[r].process

\* QThread.isRunning() of runner r: started and run() has not returned yet.
isRunning(r) == runner[r].pc \notin {"none", "done"}

\* History: thread t assigns a field of the BuildTask / writes to or closes
\* the log file through the runner's handle.
task_write(x, t) == [x EXCEPT !.taskWriters = @ \cup {t}]
log_write(x, t) == IF x.log_file THEN [x EXCEPT !.logWriters = @ \cup {t}] ELSE x

\* NuitkaRunner._write_log by thread t: appends one record when the handle is
\* set; a write that fails (the other thread closed the handle) is swallowed.
write_log(x, msg, t) ==
    IF x.log_file THEN [log_write(x, t) EXCEPT !.file = Append(@, msg)] ELSE x

\* NuitkaRunner._close_log_file by thread t: closes the handle, sets it to None.
close_log_file(x, t) == [log_write(x, t) EXCEPT !.log_file = FALSE]

\* Signal.emit()
emit(x, sig, arg) == [x EXCEPT !.emitted = Append(@, [sig |-> sig, arg |-> arg])]

\* run(): "if exit_code == 0: COMPLETED ... else: FAILED"
ExitStatusAlwaysCompleted(code) == COMPLETED
ExitStatus(code) == IF code = "0" THEN COMPLETED ELSE FAILED
ExitSignal(code) == IF code = "0" THEN "build_finished" ELSE "build_failed"

-----------------------------------------------------------------------------
\* NuitkaRunner.run() as steps on the runner's record

\* lines 42-44
run_begin(x) ==
    [task_write(x, "worker") EXCEPT !.is_running = TRUE, !.status = RUNNING,
                                    !.pc = "open"]

\* lines 47-64: the log file is opened (truncated) and the header written, or
\* the open fails and run() reports FAILED and returns.
open_log(x, ok) ==
    IF ok
    THEN [x EXCEPT !.log_file = TRUE, !.file = <<"header">>,
                   !.logWriters = @ \cup {"worker"}, !.pc = "spawn"]
    ELSE [emit(task_write(x, "worker"), "build_failed", "log")
              EXCEPT !.status = FAILED, !.end_time = @ + 1,
                     !.is_running = FALSE, !.pc = "returned"]

\* lines 66-80 and the except clauses 109-123: Popen succeeds and the child
\* runs, or it raises and the handler reports FAILED.
spawn(x, ok) ==
    IF ok
    THEN [x EXCEPT !.process = TRUE, !.child = "running", !.pc = "read"]
    ELSE [emit(close_log_file(write_log(task_write(x, "worker"), "error", "worker"),
                              "worker"),
               "build_failed", "spawn")
              EXCEPT !.status = FAILED, !.end_time = @ + 1,
                     !.spawnFailed = TRUE, !.pc = "finally"]

\* lines 83-86 with _handle_output: one line of the child's output is appended
\* to task.logs and written to the log file.
read_line(x) ==
    [write_log(task_write(x, "worker"), "out", "worker") EXCEPT !.logs = @ + 1]

\* line 83: readline returns '' (every process holding the pipe has exited).
read_eof(x) == [x EXCEPT !.pc = "wait"]

\* lines 89-91
wait(x) ==
    [task_write(x, "worker") EXCEPT !.exit_code = x.code, !.end_time = @ + 1,
                                    !.pc = "status"]

\* lines 93-94 / 100-101
set_status(x) ==
    [task_write(x, "worker") EXCEPT !.status = ExitStatus(x.exit_code),
                                    !.pc = "trailer"]

\* lines 95-97 / 103-105: the three trailer records, as one record
trailer(x) ==
    [write_log(x, IF x.exit_code = "0" THEN "success" ELSE "failure", "worker")
        EXCEPT !.pc = "close"]

\* lines 98 / 106
close_log(x) == [close_log_file(x, "worker") EXCEPT !.pc = "emit"]

\* lines 99 / 107
emit_result(x) ==
    [emit(x, ExitSignal(x.exit_code), x.exit_code) EXCEPT !.pc = "finally"]

\* lines 125-126
finally(x) == [x EXCEPT !.is_running = FALSE, !.pc = "returned"]

\* The child process tree (environment): the compiler exits by itself with
\* its descendants gone before it; descendants that outlived a killed main
\* process exit.
child_exit(x, code) == [x EXCEPT !.child = "dead", !.code = code]
orphans_exit(x) == [x EXCEPT !.child = "dead"]

\* The records one step of the worker, or of its child, can lead to from x.
WorkerSucc(x) ==
    CASE x.pc = "start" -> {run_begin(x)}
      [] x.pc = "open" -> {open_log(x, ok) : ok \in BOOLEAN}
      [] x.pc = "spawn" -> {spawn(x, ok) : ok \in BOOLEAN}
      [] x.pc = "read" ->
            (IF x.logs < MaxOut THEN {read_line(x)} ELSE {})
            \cup (IF x.child = "dead" THEN {read_eof(x)} ELSE {})
            \cup (IF x.child = "running"
                  THEN {child_exit(x, c) : c \in {"0", "1"}} ELSE {})
            \cup (IF x.child = "orphans" THEN {orphans_exit(x)} ELSE {})
      [] x.pc = "wait" -> {wait(x)}
      [] x.pc = "status" -> {set_status(x)}
      [] x.pc = "trailer" -> {trailer(x)}
      [] x.pc = "close" -> {close_log(x)}
      [] x.pc = "emit" -> {emit_result(x)}
      [] x.pc = "finally" -> {finally(x)}
      [] OTHER -> {}

\* The records with which run() can return when the worker goes on from x
\* with no other thread touching the runner.
RECURSIVE Returns(_)
Returns(x) ==
    IF x.pc = "returned" THEN {x}
    ELSE UNION {Returns(y) : y \in WorkerSucc(x)}

\* A signal emitted from the worker thread: the receiver (BasePage) lives in
\* the UI thread, so a connected slot is called through an event posted to
\* the UI thread; an emission with no connection reaches nobody.  x, y are
\* the runner's record before and after the step.
Posted(r, x, y) ==
    IF Len(y.emitted) > Len(x.emitted) /\ connected[r]
    THEN Append(uiQueue, [r |-> r, sig |-> y.emitted[Len(y.emitted)].sig,
                          arg |-> y.emitted[Len(y.emitted)].arg])
    ELSE uiQueue

\* "self.runner = NuitkaRunner(task)" drops the page's reference to runner x:
\* what is kept of x is whether its thread is still in run(), and the
\* signals with which the rest of run() can end.
detach(x) ==
    IF x.pc \in {"none", "returned", "done"}
    THEN [NoRunner EXCEPT !.pc = x.pc]
    ELSE [NoRunner EXCEPT
            !.pc = "detached",
            !.pending = {y.emitted[Len(y.emitted)] :
                            y \in {z \in Returns(x) :
                                      Len(z.emitted) > Len(x.emitted)}}]

\* One step of the worker of runner r to record y.
WorkerStep(r, y) ==
    /\ runner' = [runner EXCEPT ![r] = y]
    /\ uiQueue' = Posted(r, runner[r], y)
    /\ UNCHANGED <<other, cur, tailer, connected, ui, hist>>

-----------------------------------------------------------------------------
\* The worker thread of the page's current runner, and its child

\* The current runner's worker is at position pc of run().
At(pc) == cur > 0 /\ runner[cur].pc = pc

RunBegin == At("start") /\ WorkerStep(cur, run_begin(runner[cur]))

OpenLog == At("open") /\ \E ok \in BOOLEAN : WorkerStep(cur, open_log(runner[cur], ok))

Spawn == At("spawn") /\ \E ok \in BOOLEAN : WorkerStep(cur, spawn(runner[cur], ok))

ReadLine ==
    /\ At("read")
    /\ runner[cur].logs < MaxOut
    /\ WorkerStep(cur, read_line(runner[cur]))

ReadEOF ==
    /\ At("read")
    /\ runner[cur].child = "dead"
    /\ WorkerStep(cur, read_eof(runner[cur]))

Wait == At("wait") /\ WorkerStep(cur, wait(runner[cur]))

SetStatus == At("status") /\ WorkerStep(cur, set_status(runner[cur]))

Trailer == At("trailer") /\ WorkerStep(cur, trailer(runner[cur]))

CloseLog == At("close") /\ WorkerStep(cur, close_log(runner[cur]))

EmitResult == At("emit") /\ WorkerStep(cur, emit_result(runner[cur]))

Finally == At("finally") /\ WorkerStep(cur, finally(runner[cur]))

ChildExit ==
    /\ cur > 0
    /\ runner[cur].child = "running"
    /\ \E code \in {"0", "1"} : WorkerStep(cur, child_exit(runner[cur], code))

OrphansExit ==
    /\ cur > 0
    /\ runner[cur].child = "orphans"
    /\ WorkerStep(cur, orphans_exit(runner[cur]))

\* The worker of a runner the page has replaced: the rest of run(), with
\* the signal it emits, if it had not emitted one before.
DetachedRun(r) ==
    /\ runner[r].pc = "detached"
    /\ IF runner[r].pending = {}
       THEN WorkerStep(r, [runner[r] EXCEPT !.pc = "returned"])
       ELSE \E e \in runner[r].pending :
                WorkerStep(r, [emit(runner[r], e.sig, e.arg)
                                  EXCEPT !.pc = "returned", !.pending = {}])

\* run() has returned; the QThread finishes and isRunning() becomes false.
ThreadExit(r) ==
    /\ runner[r].pc = "returned"
    /\ WorkerStep(r, [runner[r] EXCEPT !.pc = "done"])

-----------------------------------------------------------------------------
\* LogReaderThread as the Coordinator sees it

\* LogReaderThread.stop(): clears the flag, requests interruption, waits up to
\* 5 s, then terminate() and one more second.  The thread has normally ended
\* when stop() returns; terminate() gives no guarantee that it has.
tailer_stop(t) == {[alive |-> a, is_running |-> FALSE] : a \in BOOLEAN}

\* "if self.log_reader_thread and self.log_reader_thread.isRunning():
\* self.log_reader_thread.stop()": the tailer states after it.
StopCurrentTailer ==
    IF cur > 0 /\ tailer[cur].alive
    THEN {[tailer EXCEPT ![cur] = t] : t \in tailer_stop(tailer[cur])}
    ELSE {tailer}

\* LogReaderThread.run() leaves its loop once the flag is cleared.
TailerExit(r) ==
    /\ tailer[r].alive
    /\ ~tailer[r].is_running
    /\ tailer' = [tailer EXCEPT ![r].alive = FALSE]
    /\ UNCHANGED <<other, cur, runner, connected, uiQueue, ui, hist>>

-----------------------------------------------------------------------------
\* BasePage handlers (UI thread)

\* _update_build_button_state, as called from the field-change handlers: the
\* button is enabled exactly when the entry file, output directory and an
\* .exe output filename are filled in.
UpdateBuildButtonState ==
    /\ ui.pc = "idle"
    /\ \E enabled \in BOOLEAN : ui' = [ui EXCEPT !.build_enabled = enabled]
    /\ UNCHANGED <<other, cur, runner, tailer, connected, uiQueue, hist>>

\* _on_cancel_clicked, lines 503-504
has_running_task ==
    \/ (cur > 0 /\ is_running(cur))
    \/ (cur > 0 /\ tailer[cur].alive)

\* _start_cancellation, lines 532-537: both completion signals of the current
\* runner are disconnected
disconnect(c) == [c EXCEPT ![cur] = FALSE]

\* _on_cancel_clicked with _start_cancellation up to the test of line 547:
\* with no running task the buttons are restored; otherwise the buttons show
\* "cancelling", the signals are disconnected, and stop() is called next if
\* the runner thread is running.
CancelFlow ==
    IF ~has_running_task
    THEN /\ ui' = [ui EXCEPT !.cancel_visible = FALSE, !.build_visible = TRUE,
                             !.build_enabled = TRUE]
         /\ UNCHANGED <<other, cur, runner, tailer, connected, uiQueue, hist>>
    ELSE /\ ui' = [ui EXCEPT !.cancel_visible = FALSE, !.build_visible = TRUE,
                             !.build_enabled = FALSE,
                             !.after_stop = "tailer_stop",
                             !.pc = IF isRunning(cur) THEN "stop_enter"
                                                      ELSE "tailer_stop"]
         /\ connected' = disconnect(connected)
         /\ hist' = [hist EXCEPT !.cancelReq[cur] = TRUE,
                                 !.cancelAlive[cur] = isRunning(cur)]
         /\ UNCHANGED <<other, cur, runner, tailer, uiQueue>>

\* _on_cancel_clicked: the cancel button is clicked
CancelClicked ==
    /\ ui.pc = "idle"
    /\ ui.cancel_visible
    /\ CancelFlow

\* _on_build_clicked: with a running runner it is a cancel; otherwise a new
\* BuildTask, NuitkaRunner and LogReaderThread are created and started.
\* (limit bounds the build attempts.)
on_build_clicked(limit) ==
    /\ ui.pc = "idle"
    /\ ui.build_visible /\ ui.build_enabled
    /\ IF cur > 0 /\ is_running(cur)
       THEN CancelFlow
       ELSE /\ cur < limit
            /\ cur' = cur + 1
            /\ runner' = [r \in Builds |->
                            IF r = cur + 1 THEN [NoRunner EXCEPT !.pc = "start"]
                            ELSE IF r = cur THEN detach(runner[r])
                            ELSE runner[r]]
            /\ connected' = [connected EXCEPT ![cur + 1] = TRUE]
            /\ tailer' = [tailer EXCEPT ![cur + 1] =
                              [alive |-> TRUE, is_running |-> TRUE]]
            /\ ui' = [ui EXCEPT !.build_visible = FALSE, !.cancel_visible = TRUE]
            /\ UNCHANGED <<other, uiQueue, hist>>

BuildClicked == on_build_clicked(MaxBuilds)

\* The build button clicked, with one build attempt only.
FirstBuildClicked == on_build_clicked(1)

-----------------------------------------------------------------------------
\* NuitkaRunner.stop(), called by _start_cancellation on the UI thread

\* line 133: "if self.process and self._is_running"
StopGuardNoFlag(x) == x.process
StopGuard(x) == x.process /\ x.is_running

\* One step of stop() on the current runner, to record y and position pc
\* ("return": back in the caller).
StopStep(y, pc) ==
    /\ runner' = [runner EXCEPT ![cur] = y]
    /\ ui' = [ui EXCEPT !.pc = IF pc = "return" THEN ui.after_stop ELSE pc]
    /\ UNCHANGED <<other, cur, tailer, connected, uiQueue, hist>>

\* lines 133-137: the guard; when it holds the flag is cleared
StopEnter ==
    /\ ui.pc = "stop_enter"
    /\ IF StopGuard(runner[cur])
       THEN StopStep([runner[cur] EXCEPT !.is_running = FALSE,
                                         !.stopActed = TRUE], "stop_kill")
       ELSE StopStep(runner[cur], "return")

\* lines 140-160: taskkill /F /T ends the whole tree; the fallback
\* (terminate, wait, kill) ends the main process only.  A child that has
\* already exited keeps its exit code.
StopKill ==
    /\ ui.pc = "stop_kill"
    /\ IF runner[cur].child = "running"
       THEN \E s \in {"dead", "orphans"} :
                StopStep([runner[cur] EXCEPT !.child = s, !.code = "1",
                                             !.killed = TRUE], "stop_log")
       ELSE StopStep(runner[cur], "stop_log")

\* line 163: the cancellation notice
StopLog ==
    /\ ui.pc = "stop_log"
    /\ StopStep(write_log(runner[cur], "cancelled", "ui"), "stop_close")

\* line 164
StopClose ==
    /\ ui.pc = "stop_close"
    /\ StopStep(close_log_file(runner[cur], "ui"), "stop_status")

\* lines 167-168
StopStatus ==
    /\ ui.pc = "stop_status"
    /\ StopStep([task_write(runner[cur], "ui") EXCEPT !.status = FAILED,
                                                      !.end_time = @ + 1],
                "return")

-----------------------------------------------------------------------------
\* The rest of _start_cancellation, and the cancel timer

\* lines 551-558: the tailer is stopped and the 100 ms timer started
StartCancelTimer ==
    /\ ui.pc = "tailer_stop"
    /\ tailer' \in StopCurrentTailer
    /\ ui' = [ui EXCEPT !.pc = "idle", !.timer = TRUE]
    /\ UNCHANGED <<other, cur, runner, connected, uiQueue, hist>>

\* _finish_cancellation: the timer is stopped, _cancel_start_time deleted,
\* the buttons restored
finish_cancellation(u) ==
    [u EXCEPT !.timer = FALSE, !.start_set = FALSE, !.expired = FALSE,
              !.cancel_visible = FALSE, !.build_enabled = TRUE]

\* line 573: "time.time() - self._cancel_start_time > 10", with the clock
\* reduced to whether those 10 s have passed
NeverTimedOut(u) == FALSE
TimedOut(u) == u.expired

\* _check_cancellation_complete, on every timeout of the timer
CheckCancellationComplete ==
    /\ ui.pc = "idle"
    /\ ui.timer
    /\ LET runner_stopped == cur = 0 \/ ~isRunning(cur)
           reader_stopped == cur = 0 \/ ~tailer[cur].alive
       IN  IF runner_stopped /\ reader_stopped
           THEN ui' = finish_cancellation(ui)
           ELSE IF ui.start_set
                THEN IF TimedOut(ui)
                     THEN ui' = finish_cancellation(ui)
                     ELSE UNCHANGED ui
                ELSE ui' = [ui EXCEPT !.start_set = TRUE, !.expired = FALSE]
    /\ UNCHANGED <<other, cur, runner, tailer, connected, uiQueue, hist>>

\* The clock: more than 10 s have passed since _cancel_start_time was taken.
Tick ==
    /\ ui.start_set
    /\ ~ui.expired
    /\ ui' = [ui EXCEPT !.expired = TRUE]
    /\ UNCHANGED <<other, cur, runner, tailer, connected, uiQueue, hist>>

\* _on_build_finished / _on_build_failed, called for the first posted
\* signal: the current tailer is stopped and the build button shown again.
\* A signal posted before the disconnect is still delivered.
OnBuildSignal ==
    /\ ui.pc = "idle"
    /\ uiQueue # <<>>
    /\ uiQueue' = Tail(uiQueue)
    /\ tailer' \in StopCurrentTailer
    /\ ui' = [ui EXCEPT !.cancel_visible = FALSE, !.build_visible = TRUE]
    /\ UNCHANGED <<other, cur, runner, connected, hist>>

\* MainWindow.closeEvent with _cleanup_threads: the current tailer is
\* stopped, then stop() is called on the current runner if its thread is
\* running; after the bounded waits the window closes and no handler runs
\* any more (the buttons, the timer and the posted signals play no part from
\* here on and are cleared).
CloseEvent ==
    /\ ui.pc = "idle"
    /\ tailer' \in StopCurrentTailer
    /\ ui' = [pc |-> IF cur > 0 /\ isRunning(cur) THEN "stop_enter" ELSE "closed",
              build_visible |-> FALSE, build_enabled |-> FALSE,
              cancel_visible |-> FALSE, timer |-> FALSE, start_set |-> FALSE,
              expired |-> FALSE, after_stop |-> "closed"]
    /\ uiQueue' = <<>>
    /\ UNCHANGED <<other, cur, runner, connected, hist>>

\* _cleanup_threads returns, lines 170-180: with no running runner thread it
\* returns at once; after stop() it returns when "runner.wait(5000)" does, which
\* is when the thread has finished, or after 5 s with the thread still in
\* its read loop on the output of a child (or of its descendants) that runs on.
CleanupReturn ==
    /\ ui.pc = "closed"
    /\ ~hist.cleaned
    /\ IF cur = 0 THEN TRUE
       ELSE IF ~isRunning(cur) THEN TRUE
       ELSE runner[cur].pc = "read" /\ runner[cur].child \in {"running", "orphans"}
    /\ hist' = [hist EXCEPT !.cleaned = TRUE]
    /\ UNCHANGED <<other, cur, runner, tailer, connected, uiQueue, ui>>

-----------------------------------------------------------------------------
Next ==
    \/ RunBegin \/ OpenLog \/ Spawn \/ ReadLine \/ ReadEOF \/ Wait
    \/ SetStatus \/ Trailer \/ CloseLog \/ EmitResult \/ Finally
    \/ ChildExit \/ OrphansExit
    \/ \E r \in Builds : DetachedRun(r) \/ ThreadExit(r) \/ TailerExit(r)
    \/ UpdateBuildButtonState \/ CancelClicked \/ BuildClicked
    \/ StopEnter \/ StopKill \/ StopLog \/ StopClose \/ StopStatus
    \/ StartCancelTimer \/ CheckCancellationComplete \/ Tick \/ OnBuildSignal
    \/ CloseEvent \/ CleanupReturn

Spec == Init /\ [][Next]_vars

\* The first build attempt of the page, with everything that can happen to
\* it: the specification of the claims about one runner and its cancellation.
NextFirst ==
    \/ RunBegin \/ OpenLog \/ Spawn \/ ReadLine \/ ReadEOF \/ Wait
    \/ SetStatus \/ Trailer \/ CloseLog \/ EmitResult \/ Finally
    \/ ChildExit \/ OrphansExit
    \/ \E r \in Builds : ThreadExit(r) \/ TailerExit(r)
    \/ UpdateBuildButtonState \/ CancelClicked \/ FirstBuildClicked
    \/ StopEnter \/ StopKill \/ StopLog \/ StopClose \/ StopStatus
    \/ StartCancelTimer \/ CheckCancellationComplete \/ Tick \/ OnBuildSignal
    \/ CloseEvent \/ CleanupReturn

SpecFirst == Init /\ [][NextFirst]_vars

\* The first build attempt while the window stays open, with the scheduling
\* the UI thread has: a handler that has begun runs on to its end (the kills
\* and waits inside stop() are bounded), the 100 ms timer's handler runs
\* again and again whenever the UI thread is free, and the clock advances.
\* Nothing is assumed of the worker threads and of the child.
NextOpen ==
    \/ RunBegin \/ OpenLog \/ Spawn \/ ReadLine \/ ReadEOF \/ Wait
    \/ SetStatus \/ Trailer \/ CloseLog \/ EmitResult \/ Finally
    \/ ChildExit \/ OrphansExit
    \/ \E r \in Builds : ThreadExit(r) \/ TailerExit(r)
    \/ UpdateBuildButtonState \/ CancelClicked \/ FirstBuildClicked
    \/ StopEnter \/ StopKill \/ StopLog \/ StopClose \/ StopStatus
    \/ StartCancelTimer \/ CheckCancellationComplete \/ Tick \/ OnBuildSignal

SpecOpenFair ==
    /\ Init /\ [][NextOpen]_vars
    /\ WF_vars(StopEnter \/ StopKill \/ StopLog \/ StopClose \/ StopStatus
                \/ StartCancelTimer)
    /\ SF_vars(CheckCancellationComplete)
    /\ WF_vars(Tick)

-----------------------------------------------------------------------------
\* LogReaderThread reading the log file
\*
\* The file is a sequence of characters, "a" for any character of a line and
\* "\n" for the line end, so that offsets count characters.  A poll
\* (_read_new_logs) is one step: what the claims below say of it is said of
\* polls between which the file changes, not of changes during a poll.

build == <<cur, runner, tailer, connected, uiQueue, ui, hist>>

LogChar == {"a", "\n"}

\* f.readlines() on the characters d: the lines with their line ends, the
\* last one without when the file does not end with one.
RECURSIVE readlines(_)
readlines(d) ==
    IF d = <<>> THEN <<>>
    ELSE IF \E i \in 1..Len(d) : d[i] = "\n"
         THEN LET i == CHOOSE i \in 1..Len(d) :
                          d[i] = "\n" /\ \A j \in 1..(i - 1) : d[j] # "\n"
              IN  <<SubSeq(d, 1, i)>> \o readlines(SubSeq(d, i + 1, Len(d)))
         ELSE <<d>>

\* line.rstrip('\n\r')
rstrip_nothing(line) == line
RECURSIVE rstrip(_)
rstrip(line) ==
    IF line # <<>> /\ line[Len(line)] \in {"\n", "\r"}
    THEN rstrip(SubSeq(line, 1, Len(line) - 1))
    ELSE line

\* lines 121-125: the stripped lines that are not empty, in order
RECURSIVE filtered_lines(_)
filtered_lines(new_lines) ==
    IF new_lines = <<>> THEN <<>>
    ELSE LET stripped == rstrip(Head(new_lines))
         IN  (IF stripped # <<>> THEN <<stripped>> ELSE <<>>)
                \o filtered_lines(Tail(new_lines))

\* The history of a poll made on file f that leaves the fields as in r.
polled(r, f) ==
    [r EXCEPT !.before = reader.prev, !.prev = f.data,
              !.polls = IF reader.polls < 2 THEN reader.polls + 1 ELSE 2]

\* line 107: "if file_size == 0 or file_size <= self._last_position: return"
no_growth_only_empty(file_size, position) == file_size = 0
no_growth(file_size, position) == file_size = 0 \/ file_size <= position

\* lines 99-101 and 113: the offset the read seeks to, 0 for a file that has
\* newly appeared
seek_start(r) == 0
seek_position(r) == IF r.log_file_exists THEN r.last_position ELSE 0

\* _read_new_logs on file f with the fields r: the fields after it.
read_new_logs(r, f) ==
    LET quiet == [r EXCEPT !.batch = <<>>, !.emits = 0, !.read_from = -1,
                           !.first_read = FALSE]
    IN
    IF ~f.exists
    THEN IF r.log_file_exists
         THEN [quiet EXCEPT !.log_file_exists = FALSE, !.last_position = 0]
         ELSE quiet
    ELSE LET position == seek_position(r)
             file_size == Len(f.data)
         IN  IF no_growth(file_size, position)
             THEN [quiet EXCEPT !.log_file_exists = TRUE,
                                !.last_position = position]
             ELSE LET new_lines == readlines(SubSeq(f.data, position + 1, file_size))
                      lines == filtered_lines(new_lines)
                  IN  [r EXCEPT !.log_file_exists = TRUE,
                                !.last_position = file_size,
                                !.batch = lines,
                                !.emits = IF lines # <<>> THEN 1 ELSE 0,
                                !.read_from = position,
                                !.first_read = f.unread]

\* LogReaderThread.run() up to its loop, lines 39-44
TailerRun ==
    /\ reader.pc = "init"
    /\ reader' = [reader EXCEPT !.pc = "loop", !.is_running = TRUE,
                                !.log_file_exists = logfile.exists,
                                !.last_position = 0]
    /\ UNCHANGED <<build, logfile, config>>

\* One round of the loop of run(): _read_new_logs, lines 84-128
ReadNewLogs ==
    /\ reader.pc = "loop"
    /\ reader' = polled(read_new_logs(reader, logfile), logfile)
    /\ logfile' = [logfile EXCEPT !.unread = @ /\ reader'.read_from = -1]
    /\ UNCHANGED <<build, config>>

\* The writer of the log file creates it (NuitkaRunner.run, line 54).
CreateLogFile ==
    /\ ~logfile.exists
    /\ logfile' = [exists |-> TRUE, data |-> <<>>, unread |-> TRUE,
                   gen |-> IF logfile.gen < 2 THEN logfile.gen + 1 ELSE 2]
    /\ UNCHANGED <<build, reader, config>>

\* The writer appends one character (NuitkaRunner._write_log, lines 236-237).
AppendLog ==
    /\ logfile.exists
    /\ Len(logfile.data) < MaxFile
    /\ \E c \in LogChar : logfile' = [logfile EXCEPT !.data = Append(@, c)]
    /\ UNCHANGED <<build, reader, config>>

\* The file is deleted (by the user or by a cleaning build step).
DeleteLogFile ==
    /\ logfile.exists
    /\ logfile' = [logfile EXCEPT !.exists = FALSE, !.data = <<>>,
                                  !.unread = FALSE]
    /\ UNCHANGED <<build, reader, config>>

\* A log file that is created once and appended to, as NuitkaRunner does.
NextLogGrow == TailerRun \/ ReadNewLogs \/ CreateLogFile \/ AppendLog

SpecLogGrow == Init /\ [][NextLogGrow]_vars

\* The writer appends one record: _write_log writes the message with its
\* line end and flushes (lines 236-237).  "\n" alone is a blank line, which
\* any other writer of the file can leave in it.
LogLines == {<<"\n">>, <<"a", "\n">>}

AppendLine ==
    /\ logfile.exists
    /\ \E line \in LogLines :
          /\ Len(logfile.data) + Len(line) <= MaxFile
          /\ logfile' = [logfile EXCEPT !.data = @ \o line]
    /\ UNCHANGED <<build, reader, config>>

\* A log file written record by record, which can also be deleted and
\* created again.
NextLogLines ==
    TailerRun \/ ReadNewLogs \/ CreateLogFile \/ AppendLine \/ DeleteLogFile

SpecLogLines == Init /\ [][NextLogLines]_vars

\* One round of the loop of run(), with the history of the lines delivered
ReadNewLogsKept ==
    /\ reader.pc = "loop"
    /\ LET r == polled(read_new_logs(reader, logfile), logfile)
       IN  reader' = [r EXCEPT !.delivered = @ \o r.batch]
    /\ logfile' = [logfile EXCEPT !.unread = @ /\ reader'.read_from = -1]
    /\ UNCHANGED <<build, config>>

\* A log file that is created once and only grows, record by record.
NextLogAppend == TailerRun \/ ReadNewLogsKept \/ CreateLogFile \/ AppendLine

SpecLogAppend == Init /\ [][NextLogAppend]_vars

\* The loop of run() step by step, with stop() called from the UI thread.
\* Positions of the thread: "init" (started, run() not entered), "loop" (at
\* the test of the while), "read" (in _read_new_logs), "sleep" (at the test
\* of the for), "msleep" (in msleep(100)), "done" (finished).

\* lines 46, 49 and 61: "not self._is_running or self.isInterruptionRequested()"
stop_never(r) == FALSE
stop_requested(r) == ~r.is_running \/ r.interrupt

\* History: one more, up to 2, once stop() has been called.
after_stop(r, count) == IF r.stop # "none" /\ count < 2 THEN count + 1 ELSE count

\* lines 46-50: the loop ends when a stop was requested
LoopTest ==
    /\ reader.pc = "loop"
    /\ reader' = [reader EXCEPT
                     !.pc = IF stop_requested(reader) THEN "done" ELSE "read"]
    /\ UNCHANGED <<build, logfile, config>>

\* line 52: _read_new_logs
PollStep ==
    /\ reader.pc = "read"
    /\ LET r == polled(read_new_logs(reader, logfile), logfile)
       IN  reader' = [r EXCEPT !.pc = "sleep",
                               !.delivered = @ \o r.batch,
                               !.reads_after = after_stop(reader, @)]
    /\ logfile' = [logfile EXCEPT !.unread = @ /\ reader'.read_from = -1]
    /\ UNCHANGED <<build, config>>

\* lines 60-62: the test before each 100 ms sleep
SleepTest ==
    /\ reader.pc = "sleep"
    /\ reader' = [reader EXCEPT
                     !.pc = IF stop_requested(reader) THEN "loop" ELSE "msleep"]
    /\ UNCHANGED <<build, logfile, config>>

\* line 63: msleep(100) returns; it was the last of the interval, or not
Msleep ==
    /\ reader.pc = "msleep"
    /\ \E next \in {"sleep", "loop"} :
          reader' = [reader EXCEPT !.pc = next,
                                   !.sleeps_after = after_stop(reader, @)]
    /\ UNCHANGED <<build, logfile, config>>

\* stop(), lines 68-72: the flag is cleared and the interruption requested
StopTailer ==
    /\ reader.stop # "wait"
    /\ reader' = [reader EXCEPT
                     !.is_running = FALSE, !.interrupt = TRUE, !.stop = "wait",
                     !.stopped_at = IF reader.stop = "none" THEN reader.pc ELSE @,
                     !.stop_size = IF reader.stop = "none"
                                   THEN Len(logfile.data) ELSE @]
    /\ UNCHANGED <<build, logfile, config>>

\* stop(), line 75: wait(5000) returns true, the thread has finished
StopWaitDone ==
    /\ reader.stop = "wait"
    /\ reader.pc = "done"
    /\ reader' = [reader EXCEPT !.stop = "returned"]
    /\ UNCHANGED <<build, logfile, config>>

\* stop(), lines 75-78: wait(5000) returns false with the thread held up in
\* _read_new_logs; terminate() is called and one more second waited.  Whether
\* the thread has ended by then is up to the operating system.
StopTerminate ==
    /\ reader.stop = "wait"
    /\ reader.pc = "read"
    /\ \E ended \in BOOLEAN :
          reader' = [reader EXCEPT !.stop = "returned", !.terminate = TRUE,
                                   !.pc = IF ended THEN "done" ELSE @]
    /\ UNCHANGED <<build, logfile, config>>

\* The tailer of a build whose log file is created once and appended to.
NextTailer ==
    \/ TailerRun \/ LoopTest \/ PollStep \/ SleepTest \/ Msleep
    \/ StopTailer \/ StopWaitDone \/ StopTerminate
    \/ CreateLogFile \/ AppendLine

SpecTailer == Init /\ [][NextTailer]_vars

\* A log file written character by character, with deletion of the file.
NextLog == TailerRun \/ ReadNewLogs \/ CreateLogFile \/ AppendLog \/ DeleteLogFile

SpecLog == Init /\ [][NextLog]_vars

-----------------------------------------------------------------------------
\* Config: the document and its updates
\*
\* A value of the document is a record of its type and its text, the text as
\* the sequence of its characters; a key is one symbol.  Values are scalars:
\* the list- and dict-valued entries (plugins, embedded files) are left out.

Null == [t |-> "null", v |-> <<>>]
Bool(b) == [t |-> "bool", v |-> IF b THEN <<"1">> ELSE <<"0">>]
Number(digits) == [t |-> "int", v |-> digits]
Str(chars) == [t |-> "str", v |-> chars]

Entry(key, val) == [key |-> key, val |-> val]

\* Python's truth value of a document value
truthy(val) ==
    \/ val = Bool(TRUE)
    \/ val.t = "int" /\ val.v # <<"0">>
    \/ val.t = "str" /\ val.v # <<>>

has_key(doc, key) == \E i \in 1..Len(doc) : doc[i].key = key

\* OmegaConf.select(self._config, 'nuitka.<key>'): None when the key is absent
select(doc, key) ==
    IF has_key(doc, key)
    THEN doc[CHOOSE i \in 1..Len(doc) : doc[i].key = key].val
    ELSE Null

\* OmegaConf.update(self._config, 'nuitka.<key>', value): an existing key
\* keeps its place, a new one goes to the end
omegaconf_update(doc, key, val) ==
    IF has_key(doc, key)
    THEN [i \in 1..Len(doc) |-> IF doc[i].key = key THEN Entry(key, val) ELSE doc[i]]
    ELSE Append(doc, Entry(key, val))

\* update(), lines 190-191: every key of kwargs is written, in order
RECURSIVE update_all(_, _)
update_all(doc, kwargs) ==
    IF kwargs = <<>> THEN doc
    ELSE update_all(omegaconf_update(doc, Head(kwargs).key, Head(kwargs).val),
                    Tail(kwargs))

\* update(), lines 194-202: the key of kwargs that names the mode, "" if none
\* (of the keys of the model only the mode keys contain the mode's name)
mode_key(kwargs, name) == IF has_key(kwargs, name) THEN name ELSE ""

\* update(), lines 205-210 (a = standalone, b = onefile) and 212-217
\* (a = onefile, b = standalone): "kwargs.get(a_key) is True" forces b off
exclude_nothing(doc, kwargs, a, b) == doc
exclude(doc, kwargs, a, b) ==
    IF mode_key(kwargs, a) # "" /\ select(kwargs, a) = Bool(TRUE)
    THEN IF mode_key(kwargs, b) # "" THEN omegaconf_update(doc, b, Bool(FALSE))
         ELSE IF truthy(select(doc, b)) THEN omegaconf_update(doc, b, Bool(FALSE))
         ELSE doc
    ELSE doc

\* Config.update(**kwargs): the document after it, which is also saved
update(doc, kwargs) ==
    exclude(exclude(update_all(doc, kwargs), kwargs, "standalone", "onefile"),
            kwargs, "onefile", "standalone")

\* Config.temp(**kwargs): the runtime values after it; other keys are ignored
temp_as_update(c, kwargs) ==
    [c EXCEPT !.doc = update(c.doc, kwargs), !.file = update(c.doc, kwargs)]
RECURSIVE temp(_, _)
temp(c, kwargs) ==
    IF kwargs = <<>> THEN c
    ELSE LET key == Head(kwargs).key
             value == Head(kwargs).val.v
             d == CASE key = "entry-file" -> [c EXCEPT !.entry_file = value]
                    [] key = "output-dir" -> [c EXCEPT !.output_dir = value]
                    [] key = "output-filename" -> [c EXCEPT !.output_filename = value]
                    [] key = "windows-icon-from-ico" -> [c EXCEPT !.icon_path = value]
                    [] OTHER -> c
         IN  temp(d, Tail(kwargs))

\* The call of a method of Config: what the history keeps of it.
called(c, name) ==
    [c EXCEPT !.last = name, !.kwargs = <<>>, !.before = <<>>,
              !.parts = <<>>, !.cmd = <<>>, !.cmd_again = <<>>, !.calls = 0]

\* Documents config.yml holds when the program starts; in none of them are
\* both modes on.
StartDocs ==
    { <<>>,
      <<Entry("standalone", Bool(TRUE))>>,
      <<Entry("onefile", Bool(TRUE)), Entry("standalone", Bool(FALSE))>>,
      <<Entry("standalone", Bool(FALSE)), Entry("output-dir", Str(<<"d">>))>> }

\* Keyword arguments of the calls of update() and set()
UpdateItems ==
    { Entry("standalone", Bool(TRUE)), Entry("standalone", Bool(FALSE)),
      Entry("onefile", Bool(TRUE)), Entry("onefile", Bool(FALSE)),
      Entry("output-dir", Str(<<"u">>)) }

UpdateKwargs ==
    {<<e>> : e \in UpdateItems}
       \cup {kw \in UpdateItems \X UpdateItems : kw[1].key # kw[2].key}

\* Keyword arguments of the calls of temp(): the four runtime keys, and one
\* that is none of them
TempItems ==
    { Entry(k, Str(<<"t">>)) :
        k \in {"entry-file", "output-dir", "output-filename",
               "windows-icon-from-ico", "jobs"} }

TempKwargs ==
    {<<e>> : e \in TempItems}
       \cup {kw \in TempItems \X TempItems : kw[1].key # kw[2].key}

\* Config.__init__ with load(): the document is read from config.yml
LoadConfig ==
    /\ config.last = "none"
    /\ \E d \in StartDocs :
          config' = [called(config, "load") EXCEPT !.doc = d, !.file = d]
    /\ UNCHANGED <<build, logfile, reader>>

\* Config.update(**kwargs), saving with _save()
UpdateConfig ==
    /\ config.last # "none"
    /\ \E kwargs \in UpdateKwargs :
          config' = [called(config, "update") EXCEPT
                        !.doc = update(config.doc, kwargs),
                        !.file = update(config.doc, kwargs),
                        !.kwargs = kwargs, !.before = config.doc]
    /\ UNCHANGED <<build, logfile, reader>>

\* Config.set(key, value): update(**{key: value})
SetConfig ==
    /\ config.last # "none"
    /\ \E e \in UpdateItems :
          config' = [called(config, "set") EXCEPT
                        !.doc = update(config.doc, <<e>>),
                        !.file = update(config.doc, <<e>>),
                        !.kwargs = <<e>>, !.before = config.doc]
    /\ UNCHANGED <<build, logfile, reader>>

\* Config.temp(**kwargs)
TempConfig ==
    /\ config.last # "none"
    /\ \E kwargs \in TempKwargs :
          config' = [temp(called(config, "temp"), kwargs) EXCEPT
                        !.temped = @ \cup {kwargs[i].val : i \in 1..Len(kwargs)}]
    /\ UNCHANGED <<build, logfile, reader>>

\* Config.reload()
ReloadConfig ==
    /\ config.last # "none"
    /\ config' = [called(config, "reload") EXCEPT !.doc = config.file]
    /\ UNCHANGED <<build, logfile, reader>>

NextConfig == LoadConfig \/ UpdateConfig \/ SetConfig \/ TempConfig \/ ReloadConfig

SpecConfig == Init /\ [][NextConfig]_vars

-----------------------------------------------------------------------------
\* Config.to_command, and NuitkaRunner._parse_command on its result
\*
\* A string is the sequence of its characters; "--", "=", the key names and
\* the words of the base command are written as one symbol each (they hold
\* no space, quote or backslash).

SUPPORTED_KEYS ==
    {"jobs", "standalone", "onefile", "remove-output", "show-progress",
     "show-memory", "quiet", "lto", "windows-console-mode",
     "windows-icon-from-ico", "windows-uac-admin", "windows-uac-uiaccess",
     "assume-yes-for-downloads", "clang", "mingw64", "low-memory",
     "output-filename", "output-folder-name", "output-dir", "clean-cache",
     "company-name", "product-name", "file-version", "product-version",
     "file-description", "copyright", "trademarks", "enabled-plugins",
     "disabled-plugins", "embedded-files"}

SPECIAL_KEYS == {"enabled-plugins", "disabled-plugins", "embedded-files"}

\* path.replace(old, new) for one character old and a string new
RECURSIVE replace(_, _, _)
replace(path, old, new) ==
    IF path = <<>> THEN <<>>
    ELSE (IF Head(path) = old THEN new ELSE <<Head(path)>>)
            \o replace(Tail(path), old, new)

\* Config._quote_path: backslashes become slashes, then double quotes are
\* escaped; no quotes are put around the value
quote_path(path) == replace(replace(path, "\\", <<"/">>), "\"", <<"\\", "\"">>)

\* output_filename.endswith('.exe'), and the suffix added when it does not
exe == <<".", "e", "x", "e">>
endswith(name, suffix) ==
    /\ Len(name) >= Len(suffix)
    /\ SubSeq(name, Len(name) - Len(suffix) + 1, Len(name)) = suffix
with_exe(name) == IF endswith(name, exe) THEN name ELSE name \o exe

\* f'--{key}={self._quote_path(value)}'
flag(key, value) == <<"--", key, "=">> \o quote_path(value)

\* line 340: value is None or value in ["auto", "none", "", 0, False,
\* "False", "false"]
absent_strings ==
    { <<"a", "u", "t", "o">>, <<"n", "o", "n", "e">>, <<>>,
      <<"F", "a", "l", "s", "e">>, <<"f", "a", "l", "s", "e">> }
is_absent(val) ==
    \/ val.t = "null"
    \/ val.t = "str" /\ val.v \in absent_strings
    \/ val.t = "int" /\ val.v = <<"0">>
    \/ val.t = "bool" /\ val.v = <<"0">>

\* lines 324-353: the parts the loop over the nuitka section appends
RECURSIVE section_parts(_)
section_parts(nuitka) ==
    IF nuitka = <<>> THEN <<>>
    ELSE LET key == Head(nuitka).key
             value == Head(nuitka).val
             here == IF key \in SPECIAL_KEYS \/ is_absent(value) THEN <<>>
                     ELSE IF value.t = "bool" THEN << <<"--", key>> >>
                     ELSE IF value.t = "str" THEN <<flag(key, value.v)>>
                     ELSE << <<"--", key, "=">> \o value.v >>
         IN  here \o section_parts(Tail(nuitka))

\* lines 305-318: the parts of the runtime values that are set
runtime_parts(c) ==
    (IF c.output_dir # <<>> THEN <<flag("output-dir", c.output_dir)>> ELSE <<>>)
    \o (IF c.output_filename # <<>>
        THEN <<flag("output-filename", with_exe(c.output_filename))>> ELSE <<>>)
    \o (IF c.icon_path # <<>>
        THEN <<flag("windows-icon-from-ico", c.icon_path)>> ELSE <<>>)

\* The list "parts" of to_command (python.path of the document is written
\* as the one symbol "python")
command_parts(c) ==
    << <<"python">>, <<"-m">>, <<"nuitka">> >>
    \o runtime_parts(c)
    \o section_parts(c.doc)
    \o (IF c.entry_file # <<>> THEN <<quote_path(c.entry_file)>> ELSE <<>>)

\* " ".join(parts)
RECURSIVE join(_)
join(parts) ==
    IF parts = <<>> THEN <<>>
    ELSE IF Len(parts) = 1 THEN parts[1]
    ELSE parts[1] \o <<" ">> \o join(Tail(parts))

\* Config.to_command()
to_command_by_call(c) == join(command_parts(c)) \o (IF c.calls = 0 THEN <<>> ELSE <<" ">>)
to_command(c) == join(command_parts(c))

\* shlex.split(command, posix=False): whitespace ends a word; a quote that
\* begins a token runs to the next same quote, which ends the token; a
\* quote inside a word is a character of the word.  The result is <<"error">>
\* for "No closing quotation".
RECURSIVE shlex_split(_, _, _, _)
shlex_split(s, state, token, tokens) ==
    IF s = <<>>
    THEN IF state \in {"\"", "'"} THEN <<"error">>
         ELSE IF token # <<>> THEN Append(tokens, token) ELSE tokens
    ELSE LET c == Head(s) IN
         IF state = " "
         THEN IF c = " " THEN shlex_split(Tail(s), " ", <<>>, tokens)
              ELSE IF c \in {"\"", "'"} THEN shlex_split(Tail(s), c, <<c>>, tokens)
              ELSE shlex_split(Tail(s), "a", <<c>>, tokens)
         ELSE IF state = "a"
         THEN IF c = " " THEN shlex_split(Tail(s), " ", <<>>, Append(tokens, token))
              ELSE shlex_split(Tail(s), "a", Append(token, c), tokens)
         ELSE IF c = state
              THEN shlex_split(Tail(s), " ", <<>>, Append(tokens, Append(token, c)))
              ELSE shlex_split(Tail(s), state, Append(token, c), tokens)

\* command.split(): the runs of characters that are not whitespace
RECURSIVE split(_, _, _)
split(s, token, tokens) ==
    IF s = <<>> THEN (IF token # <<>> THEN Append(tokens, token) ELSE tokens)
    ELSE IF Head(s) = " "
         THEN split(Tail(s), <<>>, IF token # <<>> THEN Append(tokens, token) ELSE tokens)
         ELSE split(Tail(s), Append(token, Head(s)), tokens)

\* NuitkaRunner._parse_command
parse_command(command) ==
    LET tokens == shlex_split(command, " ", <<>>, <<>>)
    IN  IF tokens = <<"error">> THEN split(command, <<>>, <<>>) ELSE tokens

\* Entries of the nuitka section of the documents a command is compiled from
CommandItems ==
    { Entry("lto", Str(<<"a", "u", "t", "o">>)),
      Entry("lto", Str(<<"A", "u", "t", "o">>)),
      Entry("lto", Null),
      Entry("quiet", Bool(FALSE)),
      Entry("quiet", Bool(TRUE)),
      Entry("jobs", Number(<<"0">>)),
      Entry("jobs", Number(<<"8">>)),
      Entry("company-name", Str(<<"a", " ", "b">>)),
      Entry("company-name", Str(<<"a", "\"", "b">>)),
      Entry("company-name", Str(<<"a", "\\", "b">>)),
      Entry("output-filename", Str(<<"a", "p", "p">>)),
      Entry("enabled-plugins", Null),
      Entry("foo", Str(<<"x">>)),
      Entry("foo", Bool(TRUE)) }

RECURSIVE DocsOf(_)
DocsOf(n) ==
    IF n = 0 THEN {<<>>}
    ELSE LET shorter == DocsOf(n - 1)
         IN  shorter \cup {Append(d, e) : d \in shorter, e \in CommandItems}

CommandDocs ==
    {d \in DocsOf(MaxKeys) : \A i, j \in 1..Len(d) : d[i].key = d[j].key => i = j}

\* Runtime values the pages pass to temp() before a command is compiled
PathItems ==
    { Entry("output-dir", Str(<<"C", ":", "\\", "o">>)),
      Entry("output-dir", Str(<<"m", "y", " ", "o">>)),
      Entry("output-filename", Str(<<"a", "p", "p">>)),
      Entry("output-filename", Str(<<"a", "p", "p">> \o exe)),
      Entry("windows-icon-from-ico", Str(<<"i">>)),
      Entry("entry-file", Str(<<"m", ".", "p", "y">>)) }

\* Config.__init__ with load(), on any of the documents above
LoadCommandDoc ==
    /\ config.last = "none"
    /\ \E d \in CommandDocs :
          config' = [called(config, "load") EXCEPT !.doc = d, !.file = d]
    /\ UNCHANGED <<build, logfile, reader>>

\* Config.temp(**{key: path}), as the pages call it
TempPath ==
    /\ config.last # "none"
    /\ \E e \in PathItems : config' = temp(called(config, "temp"), <<e>>)
    /\ UNCHANGED <<build, logfile, reader>>

\* Config.to_command()
ToCommand ==
    /\ config.last # "none"
    /\ config' = [config EXCEPT
                     !.last = "to_command", !.kwargs = <<>>, !.before = <<>>,
                     !.parts = command_parts(config),
                     !.cmd = to_command(config),
                     !.cmd_again = IF config.calls > 0 THEN config.cmd ELSE <<>>,
                     !.calls = IF config.calls < 2 THEN config.calls + 1 ELSE 2]
    /\ UNCHANGED <<build, logfile, reader>>

NextCommand == LoadCommandDoc \/ TempPath \/ ToCommand

SpecCommand == Init /\ [][NextCommand]_vars

-----------------------------------------------------------------------------
\* Config.update() step by step on one thread, with the calls of another
\* thread.  update, get and set are wrapped by "synchronized" and run with
\* _lock held; to_command and the property "config" are not wrapped.

\* update(), lines 174-191: the lock is taken and every key is written
UpdateApply ==
    /\ config.last # "none" /\ config.pc = "idle" /\ config.lock = "free"
    /\ \E kwargs \in UpdateKwargs :
          config' = [called(config, "update") EXCEPT
                        !.doc = update_all(config.doc, kwargs),
                        !.kwargs = kwargs, !.before = config.doc,
                        !.pc = "applied", !.lock = "update", !.seen = NoRead]
    /\ UNCHANGED <<build, logfile, reader>>

\* update(), lines 190-191, when OmegaConf.update raises at the key after the
\* n-th (a key or a value it does not accept): the exception leaves update()
\* and releases the lock
UpdateRejected ==
    /\ config.last # "none" /\ config.pc = "idle" /\ config.lock = "free"
    /\ \E kwargs \in UpdateKwargs : \E n \in 0..(Len(kwargs) - 1) :
          config' = [called(config, "update") EXCEPT
                        !.doc = update_all(config.doc, SubSeq(kwargs, 1, n)),
                        !.kwargs = kwargs, !.before = config.doc,
                        !.seen = NoRead]
    /\ UNCHANGED <<build, logfile, reader>>

\* update(), lines 193-217: the mutual exclusion of the modes
UpdateExclude ==
    /\ config.pc = "applied"
    /\ config' = [config EXCEPT
                     !.doc = exclude(exclude(config.doc, config.kwargs,
                                             "standalone", "onefile"),
                                     config.kwargs, "onefile", "standalone"),
                     !.pc = "excluded"]
    /\ UNCHANGED <<build, logfile, reader>>

\* update(), line 220: _save() writes the document to config.yml, or raises
\* (the file cannot be written); the lock is released in both cases
UpdateSave ==
    /\ config.pc = "excluded"
    /\ \E saved \in BOOLEAN :
          config' = [config EXCEPT
                        !.file = IF saved THEN config.doc ELSE @,
                        !.pc = "idle", !.lock = "free"]
    /\ UNCHANGED <<build, logfile, reader>>

\* Another thread calls to_command(): no lock is taken
ReadCommand ==
    /\ config.last # "none"
    /\ config' = [config EXCEPT
                     !.seen = [by |-> "to_command", doc |-> config.doc,
                               cmd |-> to_command(config),
                               mid |-> config.pc # "idle"]]
    /\ UNCHANGED <<build, logfile, reader>>

\* Another thread calls get(): it waits for the lock
GetValue ==
    /\ config.last # "none"
    /\ config.lock = "free"
    /\ config' = [config EXCEPT
                     !.seen = [by |-> "get", doc |-> config.doc, cmd |-> <<>>,
                               mid |-> config.pc # "idle"]]
    /\ UNCHANGED <<build, logfile, reader>>

NextLock ==
    \/ LoadConfig
    \/ UpdateApply \/ UpdateRejected \/ UpdateExclude \/ UpdateSave
    \/ (config.pc = "idle" /\ ReloadConfig)
    \/ ReadCommand \/ GetValue

SpecLock == Init /\ [][NextLock]_vars

-----------------------------------------------------------------------------
\* NuitkaRunner._parse_progress and the progress part of _handle_output
\*
\* An output line is the sequence of its characters.

\* str.lower(), on the letters A-Z
lower_nothing(line) == line
lower(line) ==
    LET upper == <<"A", "B", "C", "D", "E", "F", "G", "H", "I", "J", "K", "L", "M",
                   "N", "O", "P", "Q", "R", "S", "T", "U", "V", "W", "X", "Y", "Z">>
        small == <<"a", "b", "c", "d", "e", "f", "g", "h", "i", "j", "k", "l", "m",
                   "n", "o", "p", "q", "r", "s", "t", "u", "v", "w", "x", "y", "z">>
    IN  [i \in 1..Len(line) |->
            IF \E k \in 1..26 : upper[k] = line[i]
            THEN small[CHOOSE k \in 1..26 : upper[k] = line[i]]
            ELSE line[i]]

\* "keyword in line_lower"
contains(line, keyword) ==
    \E i \in 0..(Len(line) - Len(keyword)) :
        SubSeq(line, i + 1, i + Len(keyword)) = keyword

\* lines 293-303: the table, in its order
progress_keywords ==
    << <<<<"s", "t", "a", "r", "t", "i", "n", "g">>, 5>>,
       <<<<"p", "a", "r", "s", "i", "n", "g">>, 10>>,
       <<<<"i", "m", "p", "o", "r", "t", "i", "n", "g">>, 15>>,
       <<<<"c", "o", "m", "p", "i", "l", "i", "n", "g">>, 30>>,
       <<<<"l", "i", "n", "k", "i", "n", "g">>, 70>>,
       <<<<"c", "o", "p", "y", "i", "n", "g">>, 90>>,
       <<<<"d", "o", "n", "e">>, 100>>,
       <<<<"c", "o", "m", "p", "l", "e", "t", "e", "d">>, 100>>,
       <<<<"f", "i", "n", "i", "s", "h", "e", "d">>, 100>> >>

\* lines 305-307: the value of the first keyword of the table, from the k-th
\* on, that the line contains; -1 when there is none
RECURSIVE keyword_value(_, _)
keyword_value(line_lower, k) ==
    IF k > Len(progress_keywords) THEN -1
    ELSE IF contains(line_lower, progress_keywords[k][1])
         THEN progress_keywords[k][2]
         ELSE keyword_value(line_lower, k + 1)

digits == <<"0", "1", "2", "3", "4", "5", "6", "7", "8", "9">>

is_digit(c) == \E d \in 1..10 : digits[d] = c

\* int(text) for a string of decimal digits
RECURSIVE int(_)
int(text) ==
    IF text = <<>> THEN 0
    ELSE 10 * int(SubSeq(text, 1, Len(text) - 1))
            + (CHOOSE d \in 0..9 : digits[d + 1] = text[Len(text)])

\* lines 310-315: re.search(r'(\d+)%', line), the leftmost run of digits
\* that a "%" follows, as a number; -1 when there is no match
percent_value(line) ==
    LET matches == {m \in (1..Len(line)) \X (1..Len(line)) :
                      /\ m[1] <= m[2]
                      /\ m[2] < Len(line)
                      /\ \A i \in m[1]..m[2] : is_digit(line[i])
                      /\ line[m[2] + 1] = "%"}
    IN  IF matches = {} THEN -1
        ELSE LET first == CHOOSE m \in matches :
                             \A n \in matches : m[1] <= n[1]
             IN  int(SubSeq(line, first[1], first[2]))

\* _parse_progress(line): -1 stands for None
parse_progress(line) ==
    LET value == keyword_value(lower(line), 1)
    IN  IF value # -1 THEN value ELSE percent_value(line)

\* _handle_output, lines 273-277: "if progress is not None:
\* self.task.progress = progress"
handle_output(x, line) ==
    LET progress == parse_progress(line)
    IN  [x EXCEPT !.line = line, !.was = x.progress,
                  !.progress = IF progress # -1 THEN progress ELSE x.progress]

\* Output lines of the child
OutputLines ==
    { <<"C", "o", "m", "p", "i", "l", "i", "n", "g", " ", "m", "o", "d", "u", "l", "e", " ", "X">>,
      <<"4", "5", "%">>,
      <<"x">>,
      <<>>,
      <<"L", "i", "n", "k", "i", "n", "g", " ", "d", "o", "n", "e">>,
      <<"D", "O", "N", "E">>,
      <<"c", "o", "p", "y", "i", "n", "g", " ", "1", "0", "%">>,
      <<"a", "5", "%", "b", "1", "2", "%">>,
      <<"1", "2">>,
      <<"%">>,
      <<"1", "0", "0", "%">>,
      <<"S", "t", "a", "r", "t", "i", "n", "g">>,
      <<"p", "a", "r", "s", "i", "n", "g">>,
      <<"i", "m", "p", "o", "r", "t", "i", "n", "g">>,
      <<"c", "o", "m", "p", "l", "e", "t", "e", "d", " ", "3", "%">>,
      <<"f", "i", "n", "i", "s", "h", "e", "d">>,
      <<"7", " ", "%">>,
      <<"0", "0", "7", "%">>,
      <<"0", "%">> }

\* _handle_output is called with a line of the child's output
HandleOutput ==
    /\ \E line \in OutputLines :
          runner' = [runner EXCEPT ![1] = handle_output(runner[1], line)]
    /\ UNCHANGED <<other, cur, tailer, connected, uiQueue, ui, hist>>

NextProgress == HandleOutput

SpecProgress == Init /\ [][NextProgress]_vars

-----------------------------------------------------------------------------
\* Claims

\* stop() of the current runner is between its guard and its return.
InStop == ui.pc \in {"stop_kill", "stop_log", "stop_close", "stop_status"}

\* run() of the current runner has returned.
RunReturned == cur > 0 /\ runner[cur].pc \in {"returned", "done"}

\* The moves of TaskStatus the state machine allows.
StatusMoves ==
    {<<PENDING, RUNNING>>, <<RUNNING, COMPLETED>>, <<RUNNING, FAILED>>}

\* C1: the status of the current Build Task only moves PENDING -> RUNNING ->
\* COMPLETED or FAILED: every step that changes it makes one of these moves,
\* so that a status of COMPLETED or FAILED is never replaced by another value.
C1_StatusOnlyMovesForward ==
    [][(cur > 0 /\ cur' = cur /\ runner'[cur].status # runner[cur].status)
          => <<runner[cur].status, runner'[cur].status>> \in StatusMoves]_vars

\* C2: once a stop() that passed its guard has returned and run() has
\* returned, the status of the Build Task is FAILED, whatever the exit code.
C2_CancelForcesFailed ==
    (RunReturned /\ runner[cur].stopActed /\ ~InStop)
        => runner[cur].status = FAILED

\* C3: when the coordinator finishes a cancellation (the step in which the
\* cancel timer is stopped) that was requested while the runner thread was
\* alive, the Build Task is FAILED and nothing of the child's process tree
\* is running.
C3_CancelEndsFailedNoChild ==
    [][(cur > 0 /\ cur' = cur /\ hist.cancelAlive[cur]
        /\ ui.pc = "idle" /\ ui.timer /\ ~ui'.timer /\ ui'.pc = "idle")
          => /\ runner'[cur].status = FAILED
             /\ runner'[cur].child \in {"none", "dead"}]_vars

\* C4: a stop() called on a runner that an earlier stop() has acted on, or
\* that is not running, returns at once: it changes no field of the runner or
\* of its Build Task, writes nothing to the log file and kills nothing.
C4_StopIdempotent ==
    [][(ui.pc = "stop_enter" /\ ui'.pc # ui.pc
        /\ (runner[cur].stopActed \/ ~is_running(cur)))
          => (runner' = runner /\ ui'.pc = ui.after_stop)]_vars

\* A second stop() is being called after the first one acted.
C4_Witness ==
    /\ cur > 0
    /\ ui.pc = "stop_enter"
    /\ ui.after_stop = "closed"
    /\ runner[cur].stopActed
    /\ hist.cancelAlive[cur]

\* C5: after a cancel request for a build the UI thread never runs
\* _on_build_finished or _on_build_failed for a signal of that build.
C5_NoCompletionHandlerAfterCancel ==
    [][(ui.pc = "idle" /\ ui'.pc = "idle" /\ uiQueue # <<>>
        /\ uiQueue' = Tail(uiQueue))
          => ~hist.cancelReq[Head(uiQueue).r]]_vars

\* A cancellation is under way: from the cancel request to the moment
\* _finish_cancellation has stopped the timer.
Cancelling ==
    /\ ui.after_stop = "tailer_stop"
    /\ ui.pc \in {"stop_enter", "stop_kill", "stop_log", "stop_close",
                  "stop_status", "tailer_stop"} \/ ui.timer

\* _finish_cancellation has run: timer stopped, build button enabled.
CancelFinished ==
    ui.pc = "idle" /\ ~ui.timer /\ ~ui.start_set /\ ui.build_enabled

\* C6: every cancellation that _start_cancellation has begun reaches
\* _finish_cancellation (timer stopped, build button enabled), whether or not
\* the worker threads ever stop.
C6_CancelNeverHangs == Cancelling ~> CancelFinished

\* A cancellation was finished by the timeout with the runner thread alive.
C6_Witness ==
    /\ cur > 0
    /\ hist.cancelReq[cur]
    /\ CancelFinished
    /\ isRunning(cur)

\* C7: a new NuitkaRunner and LogReaderThread are never started while the
\* thread of the previous runner or of the previous tailer is still alive.
C7_OneLiveRunnerAndTailer ==
    [][(cur > 0 /\ cur' > cur)
          => (~isRunning(cur) /\ ~tailer[cur].alive)]_vars

\* C8: the Build Task and the log file handle of the current runner are
\* written (and the handle closed) by the runner's worker thread only.
C8_SingleWriterThread ==
    cur > 0 => /\ runner[cur].taskWriters \subseteq {"worker"}
               /\ runner[cur].logWriters \subseteq {"worker"}

\* C9: a run() that no stop() acted on ends with exactly one signal, which
\* matches the exit code: 0 gives COMPLETED and build_finished(0), any other
\* code gives FAILED and build_failed with that code, and a run that got no
\* exit code gives FAILED and build_failed; end_time is set in every case.
C9_OneNotificationMatchingExitCode ==
    (RunReturned /\ ~runner[cur].stopActed) =>
        LET x == runner[cur] IN
        /\ Len(x.emitted) = 1
        /\ x.end_time > 0
        /\ x.emitted[1].arg = (IF x.exit_code = "none" THEN x.emitted[1].arg
                                                       ELSE x.exit_code)
        /\ IF x.exit_code = "0"
           THEN x.status = COMPLETED /\ x.emitted[1].sig = "build_finished"
           ELSE x.status = FAILED /\ x.emitted[1].sig = "build_failed"

\* A run that was not cancelled has returned with exit code 0.
C9_Witness ==
    /\ RunReturned
    /\ ~runner[cur].stopActed
    /\ runner[cur].exit_code = "0"

\* C10: in a run whose spawn fails is_running() is false at every point
\* (before the spawn and after the failure), and the run returns with the
\* Build Task FAILED, end_time set, build_failed emitted once and the log
\* file closed.
C10_SpawnFailureReportedFailed ==
    cur > 0 =>
        LET x == runner[cur] IN
        /\ (x.pc \in {"start", "open", "spawn"} \/ x.spawnFailed)
              => ~is_running(cur)
        /\ x.spawnFailed =>
              /\ x.status = FAILED
              /\ x.end_time > 0
              /\ x.emitted = <<[sig |-> "build_failed", arg |-> "spawn"]>>
              /\ ~x.log_file
              /\ x.child = "none"

\* run() has returned after a spawn failure.
C10_Witness == RunReturned /\ runner[cur].spawnFailed

\* d ends at a line boundary.
WholeLines(d) == d = <<>> \/ d[Len(d)] = "\n"

\* Between the two latest polls the file grew by complete lines.
GrewByLines ==
    /\ reader.polls = 2
    /\ logfile.exists
    /\ WholeLines(reader.before) /\ WholeLines(reader.prev)
    /\ Len(reader.before) <= Len(reader.prev)
    /\ SubSeq(reader.prev, 1, Len(reader.before)) = reader.before

\* The lines added between the two latest polls, without their line ends.
RECURSIVE LinesOf(_)
LinesOf(d) ==
    IF d = <<>> THEN <<>>
    ELSE LET i == CHOOSE i \in 1..Len(d) :
                     d[i] = "\n" /\ \A j \in 1..(i - 1) : d[j] # "\n"
         IN  <<SubSeq(d, 1, i - 1)>> \o LinesOf(SubSeq(d, i + 1, Len(d)))

\* C11: when the file has grown by N complete lines between two consecutive
\* polls, the second poll emits one logs_received event with the non-empty
\* ones of those lines, in order and without line ends (no event when none
\* is left), and the stored offset is the end of the file.
C11_PollDeliversNewLines ==
    GrewByLines =>
        LET added == LinesOf(SubSeq(reader.prev, Len(reader.before) + 1,
                                    Len(reader.prev)))
            kept == SelectSeq(added, LAMBDA l : l # <<>>)
        IN  /\ reader.batch = kept
            /\ reader.emits = (IF kept = <<>> THEN 0 ELSE 1)
            /\ reader.last_position = Len(reader.prev)

\* The second of two polls found an empty and a non-empty line added to a
\* non-empty file, and delivered the non-empty one.
C11_Witness ==
    /\ GrewByLines
    /\ reader.before # <<>>
    /\ Len(reader.prev) = Len(reader.before) + 3
    /\ reader.batch = << <<"a">> >>
    /\ reader.emits = 1

\* C12: the first read of a recreated log file starts at offset 0.
C12_RecreatedFileReadFromStart ==
    (logfile.gen = 2 /\ reader.first_read) => reader.read_from = 0

\* Both modes are on in document doc.
BothModes(doc) ==
    select(doc, "onefile") = Bool(TRUE) /\ select(doc, "standalone") = Bool(TRUE)

\* The latest call was update() or set().
Updated == config.last \in {"update", "set"}

\* The latest update() or set() carried mode m as true.
SetTrue(m) == Updated /\ select(config.kwargs, m) = Bool(TRUE)

OtherMode(m) == IF m = "onefile" THEN "standalone" ELSE "onefile"

\* Mode m is on and the other mode is not.
OnlyMode(m) ==
    /\ select(config.doc, m) = Bool(TRUE)
    /\ ~truthy(select(config.doc, OtherMode(m)))

ValuesOf(doc) == {doc[i].val : i \in 1..Len(doc)}

Snapshot(c) == <<c.doc, c.file, c.entry_file, c.output_dir, c.output_filename, c.icon_path>>

Compiled == config.last = "to_command"

\* The key of a part that is a flag, "" for any other part.
FlagKey(part) == IF Len(part) >= 2 /\ part[1] = "--" THEN part[2] ELSE ""

\* The parts that are flags of key.
FlagsOf(key) == {i \in 1..Len(config.parts) : FlagKey(config.parts[i]) = key}

\* C15: the command holds a flag for no key outside SUPPORTED_KEYS.
C15_OnlyWhitelistedKeys ==
    Compiled =>
        \A i \in 1..Len(config.parts) :
            FlagKey(config.parts[i]) \in SUPPORTED_KEYS \cup {""}

\* The lower-case form of a letter; any other character is left as it is.
Lower(c) ==
    CASE c = "A" -> "a" [] c = "B" -> "b" [] c = "C" -> "c" [] c = "D" -> "d"
      [] c = "E" -> "e" [] c = "F" -> "f" [] c = "G" -> "g" [] c = "H" -> "h"
      [] c = "I" -> "i" [] c = "J" -> "j" [] c = "K" -> "k" [] c = "L" -> "l"
      [] c = "M" -> "m" [] c = "N" -> "n" [] c = "O" -> "o" [] c = "P" -> "p"
      [] c = "Q" -> "q" [] c = "R" -> "r" [] c = "S" -> "s" [] c = "T" -> "t"
      [] c = "U" -> "u" [] c = "V" -> "v" [] c = "W" -> "w" [] c = "X" -> "x"
      [] c = "Y" -> "y" [] c = "Z" -> "z"
      [] OTHER -> c

\* The absent sentinels: null, "", 0, false, and "none", "false", "auto" in
\* any letter case.
AbsentSentinel(val) ==
    \/ val \in {Null, Bool(FALSE), Number(<<"0">>), Str(<<>>)}
    \/ /\ val.t = "str"
       /\ [i \in 1..Len(val.v) |-> Lower(val.v[i])]
             \in { <<"n", "o", "n", "e">>, <<"f", "a", "l", "s", "e">>,
                   <<"a", "u", "t", "o">> }

\* The runtime keys whose value is set.
RuntimeKeys ==
    {k \in {"output-dir", "output-filename", "windows-icon-from-ico"} :
        \/ k = "output-dir" /\ config.output_dir # <<>>
        \/ k = "output-filename" /\ config.output_filename # <<>>
        \/ k = "windows-icon-from-ico" /\ config.icon_path # <<>>}

\* C16: a non-special key of the document whose value is an absent
\* sentinel gives no flag.
C16_AbsentValuesGiveNoFlag ==
    Compiled =>
        \A i \in 1..Len(config.doc) :
            LET e == config.doc[i] IN
            (AbsentSentinel(e.val) /\ e.key \notin SPECIAL_KEYS \cup RuntimeKeys)
                => FlagsOf(e.key) = {}

\* The string values the command is compiled from, each with its key: the
\* runtime values that are set (the filename with its suffix) and the string
\* values of the document that are not skipped.
StringSources ==
    {<<"output-dir", config.output_dir>> : x \in {1} \cap {IF config.output_dir # <<>> THEN 1 ELSE 0}}
    \cup {<<"output-filename", with_exe(config.output_filename)>> :
             x \in {1} \cap {IF config.output_filename # <<>> THEN 1 ELSE 0}}
    \cup {<<"windows-icon-from-ico", config.icon_path>> :
             x \in {1} \cap {IF config.icon_path # <<>> THEN 1 ELSE 0}}
    \cup {<<config.doc[i].key, config.doc[i].val.v>> :
             i \in {j \in 1..Len(config.doc) :
                      /\ config.doc[j].val.t = "str"
                      /\ ~is_absent(config.doc[j].val)
                      /\ config.doc[j].key \notin SPECIAL_KEYS}}

\* --key="value" with the value normalized and escaped.
QuotedFlag(key, value) == <<"--", key, "=", "\"">> \o quote_path(value) \o <<"\"">>

\* C17: every flag of a string value has the form --key="value", the value
\* with slashes for backslashes and with its double quotes escaped.
C17_StringFlagsAreQuoted ==
    Compiled =>
        \A i \in 1..Len(config.parts) :
            LET part == config.parts[i]
                mine == {src \in StringSources : src[1] = FlagKey(part)}
            IN  mine # {} => \E src \in mine : part = QuotedFlag(src[1], src[2])

\* The value a token --key=... carries: what follows the "=", without
\* surrounding double quotes and with \" read as ".
RECURSIVE Unescape(_)
Unescape(v) ==
    IF Len(v) < 2 THEN v
    ELSE IF v[1] = "\\" /\ v[2] = "\"" THEN <<"\"">> \o Unescape(SubSeq(v, 3, Len(v)))
    ELSE <<v[1]>> \o Unescape(Tail(v))

Recovered(token) ==
    LET v == SubSeq(token, 4, Len(token))
    IN  IF Len(v) >= 2 /\ v[1] = "\"" /\ v[Len(v)] = "\""
        THEN Unescape(SubSeq(v, 2, Len(v) - 1))
        ELSE Unescape(v)

Has(v, c) == \E i \in 1..Len(v) : v[i] = c

\* C18: for a string value with a double quote or a space and no
\* backslash, _parse_command gives one token for its flag, and the value is
\* recovered from that token.
C18_QuoteRoundTrip ==
    Compiled =>
        \A src \in StringSources :
            ((Has(src[2], "\"") \/ Has(src[2], " ")) /\ ~Has(src[2], "\\"))
            => LET tokens == parse_command(config.cmd)
                   mine == {i \in 1..Len(tokens) : FlagKey(tokens[i]) = src[1]}
               IN  \E i \in mine : mine = {i} /\ Recovered(tokens[i]) = src[2]

\* The value of runtime key k as the command must carry it.
RuntimeValue(k) ==
    CASE k = "output-dir" -> config.output_dir
      [] k = "output-filename" -> with_exe(config.output_filename)
      [] k = "windows-icon-from-ico" -> config.icon_path

\* C19: every runtime value that is set has exactly one flag in the
\* command, with the runtime value (the filename with one .exe), placed with
\* the other runtime flags before the flags of the document; and the entry
\* file, when set, is the last part.
C19_RuntimeValuesOnceAndFirst ==
    Compiled =>
        /\ \A k \in RuntimeKeys :
              \E i \in 4..(3 + Cardinality(RuntimeKeys)) :
                 /\ FlagsOf(k) = {i}
                 /\ config.parts[i] \in {flag(k, RuntimeValue(k)),
                                         QuotedFlag(k, RuntimeValue(k))}
        /\ config.entry_file # <<>> =>
              config.parts[Len(config.parts)]
                  \in {quote_path(config.entry_file),
                       <<"\"">> \o quote_path(config.entry_file) \o <<"\"">>}

\* A poll of the tailer (one call of _read_new_logs) is made in this step.
Polled == reader.pc = "loop" /\ reader'.pc = "loop" /\ reader' # reader

\* The file is present and not larger than the stored offset.
NotGrown == logfile.exists /\ Len(logfile.data) <= reader.last_position

C26_OffsetMonotonic ==
    /\ [][\/ reader'.last_position >= reader.last_position
          \/ /\ reader'.last_position = 0
             /\ reader'.log_file_exists # reader.log_file_exists]_vars
    /\ [](reader.read_from # -1 =>
            /\ reader.read_from < reader.last_position
            /\ reader.last_position <= Len(reader.prev))

\* After a read the file went away and a poll has set the offset back to 0.
C26_Witness ==
    /\ reader.polls = 2
    /\ reader.before # <<>>
    /\ ~logfile.exists
    /\ ~reader.log_file_exists
    /\ reader.last_position = 0

\* The lines of d that are not empty, without their line ends.
NonEmptyLines(d) == SelectSeq(LinesOf(d), LAMBDA l : l # <<>>)

C22_ShutdownLeavesNothingRunning ==
    [][(~hist.cleaned /\ hist'.cleaned /\ cur > 0)
          => /\ ~isRunning(cur)
             /\ runner[cur].child \in {"none", "dead"}
             /\ ~runner[cur].log_file]_vars

\* C27: once a stop() that ended a running child has returned and run() has
\* returned, the log file is closed and holds the cancellation notice.
C27_CancelNoticeInClosedLog ==
    (RunReturned /\ runner[cur].killed /\ ~InStop)
        => /\ ~runner[cur].log_file
           /\ \E i \in 1..Len(runner[cur].file) : runner[cur].file[i] = "cancelled"

\* The keywords of the heuristic with their values, in the order of the
\* table.
Keywords ==
    << [word |-> <<"s", "t", "a", "r", "t", "i", "n", "g">>, value |-> 5],
       [word |-> <<"p", "a", "r", "s", "i", "n", "g">>, value |-> 10],
       [word |-> <<"i", "m", "p", "o", "r", "t", "i", "n", "g">>, value |-> 15],
       [word |-> <<"c", "o", "m", "p", "i", "l", "i", "n", "g">>, value |-> 30],
       [word |-> <<"l", "i", "n", "k", "i", "n", "g">>, value |-> 70],
       [word |-> <<"c", "o", "p", "y", "i", "n", "g">>, value |-> 90],
       [word |-> <<"d", "o", "n", "e">>, value |-> 100],
       [word |-> <<"c", "o", "m", "p", "l", "e", "t", "e", "d">>, value |-> 100],
       [word |-> <<"f", "i", "n", "i", "s", "h", "e", "d">>, value |-> 100] >>

\* Word w occurs in line l when the letter case of l is ignored.
Occurs(w, l) ==
    \E i \in 1..(Len(l) - Len(w) + 1) :
        \A j \in 1..Len(w) : Lower(l[i + j - 1]) = w[j]

\* Line l holds the decimal number n followed by "%", and no number followed
\* by "%" begins before it.
NumberPercent(l, n) ==
    \E i, j \in 1..Len(l) :
        /\ i <= j /\ j < Len(l) /\ l[j + 1] = "%"
        /\ \A k \in i..j : is_digit(l[k])
        /\ i > 1 => ~is_digit(l[i - 1])
        /\ int(SubSeq(l, i, j)) = n
        /\ \A a, b \in 1..(i - 1) :
              ~(a <= b /\ l[b + 1] = "%" /\ \A k \in a..b : is_digit(l[k]))

C21_ReadersSeeWholeUpdates ==
    config.seen.mid =>
        config.seen.doc \in {config.before, update(config.before, config.kwargs)}

\* C30: whenever no call is in progress, config.yml holds the in-memory
\* document; so an update() that raised has changed neither.
C30_FileEqualsMemory ==
    (config.pc = "idle" /\ config.lock = "free") => config.file = config.doc

\* The first stop() was called while the thread was in its sleep between
\* two polls.
StoppedInSleep == reader.stopped_at \in {"sleep", "msleep"}

\* stop() returns in this step.
StopReturns == reader.stop = "wait" /\ reader'.stop = "returned"

\* A stop() is called again after one has returned with the thread finished.
StopAgain == reader.stop = "returned" /\ reader.pc = "done" /\ reader'.stop = "wait"

\* What a stop() can do to the tailer thread: end it or call terminate() on
\* it, and with that change what it reads and delivers.
TailerEffects(r) == <<r.pc, r.terminate, r.last_position, r.delivered>>

C28_EveryLineDelivered ==
    (reader.pc = "done" /\ reader.stop_size = Len(logfile.data))
        => reader.delivered = NonEmptyLines(logfile.data)

====
